---- MODULE Spec2Model ----
(***************************************************************************)
(* Model of the nbr bootstrap scripts and the hello plugin template.       *)
(*                                                                         *)
(*   src/src/cli/nbfile/bot.py     production entry point                  *)
(*   src/src/cli/templates/bot.py  template entry point                    *)
(*   src/src/cli/templates/hello.py example command handler                *)
(*                                                                         *)
(* Each entry point is a straight-line Python module body.  It is modelled *)
(* as a process with a program counter; every statement that touches the   *)
(* outside world (nonebot, importlib, tomllib, the logger) appends one     *)
(* event to that process's call trace.  The manifest (pyproject.toml) is   *)
(* the input and is drawn in Init from a bounded set of TOML documents,    *)
(* malformed ones included.  The scripts are modelled as run as the main   *)
(* module (python bot.py), so the __name__ guard of the last line holds.   *)
(***************************************************************************)
EXTENDS Integers, Sequences, FiniteSets, TLC

\* Longest adapter list a manifest of the model carries.
MaxAdapters == 2

\* Most messages the hello matcher is sent in one run of the model.
MaxEvents == 2

\* Most segments of one command argument.
MaxSegments == 2

VARIABLES
    manifest,   \* the content of pyproject.toml
    pc,         \* pc[s]: the statement script s is at
    idx,        \* idx[s]: how many descriptors the for loop of s has taken
    adapter,    \* adapter[s]: the loop variable of s
    exc,        \* exc[s]: the exception being handled / that ended s
    calls,      \* calls[s]: the external calls s has made, in order
    history,    \* hello plugin: the events handled so far, with their replies
    hpc,        \* hello plugin: position of the running handler
    event,      \* hello plugin: the event being handled
    msg         \* hello plugin: local variable msg of hello_handler

vars == <<manifest, pc, idx, adapter, exc, calls, history, hpc, event, msg>>
botVars == <<manifest, pc, idx, adapter, exc, calls>>
helloVars == <<history, hpc, event, msg>>

----------------------------------------------------------------------------
(* The manifest                                                            *)

Scripts == {"nbfile", "template"}

\* Marks a key that a TOML table does not carry.
NoKey == "<no key>"

DisplayNames == {"OneBot", "Console"}

\* Importable module identifiers, one per outcome of resolving a descriptor:
\* two that register, one whose import raises, one that exports no Adapter,
\* one whose Adapter the driver rejects.
ModuleNames == {"adapters.v11", "adapters.console", "adapters.missing",
                "adapters.noattr", "adapters.badreg"}

Descriptors == [name : DisplayNames \cup {NoKey},
                module_name : ModuleNames \cup {NoKey}]

AdapterLists == UNION {[1..n -> Descriptors] : n \in 0..MaxAdapters}

BuiltinLists == {<<"echo">>}

\* A pyproject.toml.  file says whether it can be opened and parsed; the
\* has* fields say which tables and keys are there (a key inside a table
\* that is absent is absent as well).
Manifests ==
    {m \in [file : {"ok", "missing", "invalid"},
            hasTool : BOOLEAN, hasNonebot : BOOLEAN,
            hasAdapters : BOOLEAN, hasBuiltin : BOOLEAN,
            adapters : AdapterLists, builtin_plugins : BuiltinLists \cup {<<>>}] :
        /\ (m.file # "ok") => ~m.hasTool
        /\ m.hasNonebot => m.hasTool
        /\ m.hasAdapters => m.hasNonebot
        /\ m.hasBuiltin => m.hasNonebot
        /\ (~m.hasAdapters) => m.adapters = <<>>
        /\ m.hasBuiltin <=> (m.builtin_plugins # <<>>)}

----------------------------------------------------------------------------
(* The environment the scripts call into                                   *)

\* importlib.import_module(name): TRUE when it raises.
ImportRaises(name) == name = "adapters.missing"

\* adapter_module.Adapter: TRUE when the attribute exists.
HasAdapterAttr(name) == name # "adapters.noattr"

\* driver.register_adapter(cls): TRUE when it raises.
RegisterRaises(name) == name = "adapters.badreg"

\* str(e) of the exception raised while resolving module `name`.
KeyErrorText(key) == "'" \o key \o "'"
ImportErrorText(name) == "No module named '" \o name \o "'"
AttrErrorText(name) == "module '" \o name \o "' has no attribute 'Adapter'"
RegisterErrorText(name) == "cannot register " \o name

\* One external call: what was called, with what, and whether it raised.
Call(op, args, raised) == [op |-> op, args |-> args, raised |-> raised]

Emit(s, op, args, raised) ==
    calls' = [calls EXCEPT ![s] = Append(@, Call(op, args, raised))]

Goto(s, label) == pc' = [pc EXCEPT ![s] = label]

\* An uncaught exception: the traceback ends the process.
Crash(s, text) ==
    /\ pc' = [pc EXCEPT ![s] = "crashed"]
    /\ exc' = [exc EXCEPT ![s] = text]

ManifestPath == "pyproject.toml"

\* Mutant of Caught: `except ImportError`, which lets every other exception
\* of the try body end the process.
Caught_ImportErrorOnly(s, text) ==
    IF text \in {ImportErrorText(m) : m \in ModuleNames}
       THEN /\ pc' = [pc EXCEPT ![s] = "except"]
            /\ exc' = [exc EXCEPT ![s] = text]
       ELSE Crash(s, text)

\* The except clause: `except Exception` catches every exception the try
\* body raises here (KeyError, ImportError, AttributeError, the driver's).
Caught(s, text) ==
    /\ pc' = [pc EXCEPT ![s] = "except"]
    /\ exc' = [exc EXCEPT ![s] = text]

\* f"Failed to register adapter {adapter['name']}: {e}"
FailureMessage(name, e) == "Failed to register adapter " \o name \o ": " \o e

\* The argument nonebot.run is called with.
RunArgs(s) == IF s = "nbfile" THEN <<"app=__mp_main__:app">> ELSE <<>>

\* Where control goes when the for loop is exhausted.
AfterLoop(s) == IF s = "template" THEN "builtin" ELSE "load_from_toml"

\* Mutant of ContinueTarget: `break`, which leaves the loop at the first
\* failure.
ContinueTarget_Break(s) == AfterLoop(s)

\* Mutant of ContinueTarget: the template alone has `break`.
ContinueTarget_TemplateBreak(s) == IF s = "template" THEN AfterLoop(s) ELSE "for"

\* `continue`: back to the head of the for loop.
ContinueTarget(s) == "for"

----------------------------------------------------------------------------
(* The statements of bot.py                                                *)

\* nonebot.init()
NonebotInit(s) ==
    /\ pc[s] = "init"
    /\ Emit(s, "init", <<>>, FALSE)
    /\ Goto(s, "get_driver")
    /\ UNCHANGED <<manifest, idx, adapter, exc, helloVars>>

\* driver = nonebot.get_driver()
GetDriver(s) ==
    /\ pc[s] = "get_driver"
    /\ Emit(s, "get_driver", <<>>, FALSE)
    /\ Goto(s, "open")
    /\ UNCHANGED <<manifest, idx, adapter, exc, helloVars>>

\* with open("pyproject.toml", "rb") as f: pyproject = tomllib.load(f)
ReadManifest(s) ==
    /\ pc[s] = "open"
    /\ Emit(s, "open", <<ManifestPath>>, manifest.file # "ok")
    /\ CASE manifest.file = "missing" -> Crash(s, "FileNotFoundError")
         [] manifest.file = "invalid" -> Crash(s, "TOMLDecodeError")
         [] OTHER -> Goto(s, "tables") /\ UNCHANGED exc
    /\ UNCHANGED <<manifest, idx, adapter, helloVars>>

\* Mutant of LookupAdapters: .get("adapters", []) in place of ["adapters"],
\* which takes an absent adapter list for an empty one.
LookupAdapters_Default(s) ==
    /\ pc[s] = "tables"
    /\ CASE ~manifest.hasTool -> Crash(s, KeyErrorText("tool"))
         [] manifest.hasTool /\ ~manifest.hasNonebot ->
                Crash(s, KeyErrorText("nonebot"))
         [] OTHER -> Goto(s, "for") /\ UNCHANGED exc
    /\ UNCHANGED <<manifest, idx, adapter, calls, helloVars>>

\* nbfile:   adapters = pyproject["tool"]["nonebot"]["adapters"]
\* template: tool_nonebot = pyproject["tool"]["nonebot"]
\*           adapters = tool_nonebot["adapters"]
LookupAdapters(s) ==
    /\ pc[s] = "tables"
    /\ CASE ~manifest.hasTool -> Crash(s, KeyErrorText("tool"))
         [] manifest.hasTool /\ ~manifest.hasNonebot ->
                Crash(s, KeyErrorText("nonebot"))
         [] manifest.hasNonebot /\ ~manifest.hasAdapters ->
                Crash(s, KeyErrorText("adapters"))
         [] OTHER -> Goto(s, "for") /\ UNCHANGED exc
    /\ UNCHANGED <<manifest, idx, adapter, calls, helloVars>>

\* for adapter in adapters:
\*     try: adapter_module = importlib.import_module(adapter["module_name"])
ImportModule(s) ==
    /\ pc[s] = "for"
    /\ idx[s] < Len(manifest.adapters)
    /\ LET a == manifest.adapters[idx[s] + 1] IN
        /\ idx' = [idx EXCEPT ![s] = @ + 1]
        /\ adapter' = [adapter EXCEPT ![s] = a]
        /\ IF a.module_name = NoKey
              THEN /\ Caught(s, KeyErrorText("module_name"))
                   /\ UNCHANGED calls
              ELSE /\ Emit(s, "import_module", <<a.module_name>>,
                           ImportRaises(a.module_name))
                   /\ IF ImportRaises(a.module_name)
                         THEN Caught(s, ImportErrorText(a.module_name))
                         ELSE Goto(s, "register") /\ UNCHANGED exc
    /\ UNCHANGED <<manifest, helloVars>>

\*     driver.register_adapter(adapter_module.Adapter)
RegisterAdapter(s) ==
    /\ pc[s] = "register"
    /\ LET m == adapter[s].module_name IN
        IF ~HasAdapterAttr(m)
           THEN /\ Caught(s, AttrErrorText(m))
                /\ UNCHANGED calls
           ELSE /\ Emit(s, "register_adapter", <<m>>, RegisterRaises(m))
                /\ IF RegisterRaises(m)
                      THEN Caught(s, RegisterErrorText(m))
                      ELSE Goto(s, "for") /\ UNCHANGED exc
    /\ UNCHANGED <<manifest, idx, adapter, helloVars>>

\* Mutant of LogFailure: the failed descriptor is taken again.
LogFailure_Retry(s) ==
    /\ pc[s] = "except"
    /\ IF adapter[s].name = NoKey
          THEN /\ Crash(s, KeyErrorText("name"))
               /\ UNCHANGED <<calls, idx>>
          ELSE /\ Emit(s, "logger.error",
                       <<FailureMessage(adapter[s].name, exc[s])>>, FALSE)
               /\ Goto(s, "for")
               /\ idx' = [idx EXCEPT ![s] = @ - 1]
               /\ exc' = [exc EXCEPT ![s] = ""]
    /\ UNCHANGED <<manifest, adapter, helloVars>>

\*     except Exception as e:
\*         logger.error(f"Failed to register adapter {adapter['name']}: {e}")
\*         continue
LogFailure(s) ==
    /\ pc[s] = "except"
    /\ IF adapter[s].name = NoKey
          THEN /\ Crash(s, KeyErrorText("name"))
               /\ UNCHANGED calls
          ELSE /\ Emit(s, "logger.error",
                       <<FailureMessage(adapter[s].name, exc[s])>>, FALSE)
               /\ Goto(s, ContinueTarget(s))
               /\ exc' = [exc EXCEPT ![s] = ""]
    /\ UNCHANGED <<manifest, idx, adapter, helloVars>>

\* The for loop is exhausted.
EndLoop(s) ==
    /\ pc[s] = "for"
    /\ idx[s] >= Len(manifest.adapters)
    /\ Goto(s, AfterLoop(s))
    /\ UNCHANGED <<manifest, idx, adapter, exc, calls, helloVars>>

\* template only: nonebot.load_builtin_plugins(*tool_nonebot["builtin_plugins"])
LoadBuiltinPlugins(s) ==
    /\ pc[s] = "builtin"
    /\ IF ~manifest.hasBuiltin
          THEN /\ Crash(s, KeyErrorText("builtin_plugins"))
               /\ UNCHANGED calls
          ELSE /\ Emit(s, "load_builtin_plugins", manifest.builtin_plugins, FALSE)
               /\ Goto(s, "load_from_toml")
               /\ UNCHANGED exc
    /\ UNCHANGED <<manifest, idx, adapter, helloVars>>

\* nonebot.load_from_toml("pyproject.toml")
LoadFromToml(s) ==
    /\ pc[s] = "load_from_toml"
    /\ Emit(s, "load_from_toml", <<ManifestPath>>, FALSE)
    /\ Goto(s, "run")
    /\ UNCHANGED <<manifest, idx, adapter, exc, helloVars>>

\* if __name__ == "__main__": nonebot.run(...)
Run(s) ==
    /\ pc[s] = "run"
    /\ Emit(s, "run", RunArgs(s), FALSE)
    /\ Goto(s, "done")
    /\ UNCHANGED <<manifest, idx, adapter, exc, helloVars>>

BotStep(s) ==
    \/ NonebotInit(s)
    \/ GetDriver(s)
    \/ ReadManifest(s)
    \/ LookupAdapters(s)
    \/ ImportModule(s)
    \/ RegisterAdapter(s)
    \/ LogFailure(s)
    \/ EndLoop(s)
    \/ LoadBuiltinPlugins(s)
    \/ LoadFromToml(s)
    \/ Run(s)

----------------------------------------------------------------------------
(* The hello plugin (templates/hello.py)                                   *)

\* on_command("hello", aliases={"hi"}, priority=10, block=True)
HelloCommand == "hello"
HelloAliases == {"hi"}

\* The commands a user sends; "help" is bound to no matcher of the plugin.
Commands == {"hello", "hi", "help"}

\* Message segments: plain text, or something that is not text.
Segments == {[type |-> "text", data |-> "Alice"],
             [type |-> "image", data |-> "cat.png"]}

Messages == UNION {[1..n -> Segments] : n \in 0..MaxSegments}

Events == [command : Commands, arg : Messages]

\* Mutant of Matches: the aliases are not bound.
Matches_PrimaryOnly(cmd) == cmd = HelloCommand

\* The matcher's rule: the command is the primary one or one of its aliases.
Matches(cmd) == cmd = HelloCommand \/ cmd \in HelloAliases

\* Message.extract_plain_text(): the text segments' data, concatenated.
RECURSIVE ExtractPlainText(_)
ExtractPlainText(m) ==
    IF m = <<>> THEN ""
    ELSE (IF Head(m).type = "text" THEN Head(m).data ELSE "")
         \o ExtractPlainText(Tail(m))

\* f"Hello, {msg}!"
Greeting(text) == "Hello, " \o text \o "!"

DefaultGreeting == "Hello, World!"

\* Mutant of Truthy: `if msg is not None:`, true of the empty str as well.
Truthy_NotNone(text) == TRUE

\* `if msg:` an empty str is falsy.
Truthy(text) == text # ""

NoEvent == [command |-> "", arg |-> <<>>]

\* hello.finish(text): one reply goes out and the handler's run ends.
Finish(text) ==
    /\ history' = [history EXCEPT ![Len(history)].replies = Append(@, text)]
    /\ hpc' = "idle"
    /\ event' = NoEvent
    /\ msg' = ""

\* The framework receives a command and runs the matchers bound to it.
Dispatch(e) ==
    /\ hpc = "idle"
    /\ Len(history) < MaxEvents
    /\ history' = Append(history, [command |-> e.command, arg |-> e.arg,
                                   replies |-> <<>>])
    /\ IF Matches(e.command)
          THEN hpc' = "extract" /\ event' = e
          ELSE UNCHANGED <<hpc, event>>
    /\ UNCHANGED <<msg, botVars>>

\* msg = args.extract_plain_text()
HandlerExtract ==
    /\ hpc = "extract"
    /\ msg' = ExtractPlainText(event.arg)
    /\ hpc' = "if"
    /\ UNCHANGED <<history, event, botVars>>

\* if msg: await hello.finish(f"Hello, {msg}!")
HandlerGreet ==
    /\ hpc = "if"
    /\ Truthy(msg)
    /\ Finish(Greeting(msg))
    /\ UNCHANGED botVars

\* else: await hello.finish("Hello, World!")
HandlerDefault ==
    /\ hpc = "if"
    /\ ~Truthy(msg)
    /\ Finish(DefaultGreeting)
    /\ UNCHANGED botVars

----------------------------------------------------------------------------
(* Specifications                                                          *)

HelloIdle ==
    /\ history = <<>>
    /\ hpc = "idle"
    /\ event = NoEvent
    /\ msg = ""

BotFresh(started) ==
    /\ pc = [s \in Scripts |-> IF s \in started THEN "init" ELSE "not_started"]
    /\ idx = [s \in Scripts |-> 0]
    /\ adapter = [s \in Scripts |-> [name |-> NoKey, module_name |-> NoKey]]
    /\ exc = [s \in Scripts |-> ""]
    /\ calls = [s \in Scripts |-> <<>>]

\* One of the two entry points is started on some manifest.
Init ==
    /\ manifest \in Manifests
    /\ \E s \in Scripts : BotFresh({s})
    /\ HelloIdle

Next == \E s \in Scripts : BotStep(s)

Spec == Init /\ [][Next]_vars

\* Both entry points are started on the same manifest; they share no state.
InitPair ==
    /\ manifest \in Manifests
    /\ BotFresh(Scripts)
    /\ HelloIdle

SpecPair == InitPair /\ [][Next]_vars

\* The hello plugin, loaded, receiving commands.
InitHello ==
    /\ manifest = [file |-> "ok", hasTool |-> TRUE, hasNonebot |-> TRUE,
                   hasAdapters |-> TRUE, hasBuiltin |-> FALSE,
                   adapters |-> <<>>, builtin_plugins |-> <<>>]
    /\ BotFresh({})
    /\ HelloIdle

NextHello ==
    \/ \E e \in Events : Dispatch(e)
    \/ HandlerExtract
    \/ HandlerGreet
    \/ HandlerDefault

SpecHello == InitHello /\ [][NextHello]_vars

----------------------------------------------------------------------------
(* What a run shows, and what the manifest says it should show             *)

Terminated(s) == pc[s] \in {"done", "crashed"}

\* The manifest can be read and carries tool.nonebot.adapters.
HasAdapterList == manifest.file = "ok" /\ manifest.hasAdapters

NumAdapters == Len(manifest.adapters)

CallsOf(s, op) == SelectSeq(calls[s], LAMBDA c : c.op = op)

Called(s, op) == \E i \in 1..Len(calls[s]) : calls[s][i].op = op

FirstArgs(cs) == [i \in 1..Len(cs) |-> cs[i].args[1]]

\* The adapters the driver accepted, the errors logged, the imports attempted.
Registered(s) ==
    FirstArgs(SelectSeq(calls[s],
                        LAMBDA c : c.op = "register_adapter" /\ ~c.raised))
Logged(s) == FirstArgs(CallsOf(s, "logger.error"))
Imported(s) == FirstArgs(CallsOf(s, "import_module"))

\* A descriptor resolves when the import, the attribute lookup and the
\* registration all succeed.
Resolves(d) ==
    /\ d.module_name # NoKey
    /\ ~ImportRaises(d.module_name)
    /\ HasAdapterAttr(d.module_name)
    /\ ~RegisterRaises(d.module_name)

\* The exception a descriptor that does not resolve fails with.
FailureOf(d) ==
    IF d.module_name = NoKey THEN KeyErrorText("module_name")
    ELSE IF ImportRaises(d.module_name) THEN ImportErrorText(d.module_name)
    ELSE IF ~HasAdapterAttr(d.module_name) THEN AttrErrorText(d.module_name)
    ELSE RegisterErrorText(d.module_name)

RECURSIVE ResolvingModules(_)
ResolvingModules(ds) ==
    IF ds = <<>> THEN <<>>
    ELSE (IF Resolves(Head(ds)) THEN <<Head(ds).module_name>> ELSE <<>>)
         \o ResolvingModules(Tail(ds))

RECURSIVE NamedModules(_)
NamedModules(ds) ==
    IF ds = <<>> THEN <<>>
    ELSE (IF Head(ds).module_name # NoKey THEN <<Head(ds).module_name>>
                                          ELSE <<>>)
         \o NamedModules(Tail(ds))

RECURSIVE FailureLog(_)
FailureLog(ds) ==
    IF ds = <<>> THEN <<>>
    ELSE (IF Resolves(Head(ds)) THEN <<>>
          ELSE <<"Failed to register adapter " \o Head(ds).name \o ": "
                 \o FailureOf(Head(ds))>>)
         \o FailureLog(Tail(ds))

NumResolving == Len(ResolvingModules(manifest.adapters))

FirstAdapters(n) == SubSeq(manifest.adapters, 1, n)

\* The error handler of the loop raised: the descriptor has no display name.
HandlerRaised(s) == pc[s] = "crashed" /\ exc[s] = KeyErrorText("name")

\* Descriptors whose loop iteration has run to its end.
Handled(s) ==
    IF pc[s] \in {"register", "except"} \/ HandlerRaised(s)
       THEN idx[s] - 1 ELSE idx[s]

\* Every failing descriptor of the manifest carries a display name.
FailuresNamed ==
    \A i \in 1..NumAdapters :
        Resolves(manifest.adapters[i]) \/ manifest.adapters[i].name # NoKey

----------------------------------------------------------------------------
(* Claims                                                                  *)

\* C1 (as stated, on the manifests whose failing descriptors all carry a
\* display name): for a manifest with N descriptors of which M resolve, once
\* the script has ended exactly M adapters are registered, exactly N-M errors
\* are logged, and the script went on past the loop to load_from_toml,
\* whatever M is and whichever descriptors fail.
C1_Claim ==
    \A s \in Scripts :
        (Terminated(s) /\ HasAdapterList /\ FailuresNamed) =>
            /\ Len(Registered(s)) = NumResolving
            /\ Len(Logged(s)) = NumAdapters - NumResolving
            /\ Called(s, "load_from_toml")

\* C2 (as stated): every failing descriptor is caught, logged exactly once
\* with its display name and the exception, and the loop goes on: no failure
\* of a descriptor ends the startup or keeps a later descriptor from being
\* attempted.
C2_Claim ==
    \A s \in Scripts :
        HasAdapterList =>
            /\ ~HandlerRaised(s)
            /\ Terminated(s) =>
                  /\ idx[s] = NumAdapters
                  /\ Logged(s) = FailureLog(manifest.adapters)

\* C2 (amended): every failing descriptor that carries a display name is
\* caught and logged exactly once, with its display name and the exception,
\* in manifest order, and the loop goes on to the next descriptor; the
\* startup ends inside the loop only when a failing descriptor has no display
\* name, where the error handler itself raises KeyError('name').
C2_Amended ==
    \A s \in Scripts :
        HasAdapterList =>
            /\ Logged(s) = FailureLog(FirstAdapters(Handled(s)))
            /\ HandlerRaised(s) =>
                  /\ ~Resolves(manifest.adapters[idx[s]])
                  /\ manifest.adapters[idx[s]].name = NoKey
            /\ (Terminated(s) /\ ~HandlerRaised(s)) => idx[s] = NumAdapters
            /\ (Terminated(s) /\ FailuresNamed) =>
                  /\ idx[s] = NumAdapters
                  /\ Logged(s) = FailureLog(manifest.adapters)

\* C2 witness: a named descriptor failed and was logged, and the descriptor
\* after it was then imported and registered.
C2_Witness ==
    \E s \in Scripts :
        /\ pc[s] = "done"
        /\ NumAdapters = 2
        /\ ~Resolves(manifest.adapters[1])
        /\ Logged(s) = FailureLog(FirstAdapters(1))
        /\ Registered(s) = <<manifest.adapters[2].module_name>>

\* C3: with tool, tool.nonebot or tool.nonebot.adapters absent, the startup
\* ends in an uncaught KeyError for the absent key before any module import
\* or register_adapter call, and no plugin loading or nonebot.run follows.
C3_MissingTableFailsFirst ==
    \A s \in Scripts :
        (manifest.file = "ok" /\ ~manifest.hasAdapters) =>
            /\ ~Called(s, "import_module")
            /\ ~Called(s, "register_adapter")
            /\ ~Called(s, "logger.error")
            /\ ~Called(s, "load_builtin_plugins")
            /\ ~Called(s, "load_from_toml")
            /\ ~Called(s, "run")
            /\ pc[s] \in {"not_started", "init", "get_driver", "open",
                          "tables", "crashed"}
            /\ pc[s] = "crashed" =>
                  exc[s] = KeyErrorText(IF ~manifest.hasTool THEN "tool"
                                        ELSE IF ~manifest.hasNonebot
                                                THEN "nonebot"
                                                ELSE "adapters")

\* C3 witness: the template ended on the absent adapter list although the
\* manifest lists built-in plugins.
C3_Witness ==
    /\ pc["template"] = "crashed"
    /\ manifest.hasNonebot /\ ~manifest.hasAdapters /\ manifest.hasBuiltin
    /\ exc["template"] = "'adapters'"

\* C4: every run of hello_handler sends exactly one reply and nothing else:
\* "Hello, World!" when the extracted plain text is empty, "Hello, <text>!"
\* with the extracted text otherwise ("Hello, Alice!" for "Alice").
C4_OneReply ==
    \A i \in 1..Len(history) :
        LET h == history[i]
            text == ExtractPlainText(h.arg)
            over == i < Len(history) \/ hpc = "idle"
        IN  /\ Len(h.replies) <= 1
            /\ (Matches(h.command) /\ over) =>
                  /\ Len(h.replies) = 1
                  /\ text = "" => h.replies[1] = "Hello, World!"
                  /\ text # "" => h.replies[1] = "Hello, " \o text \o "!"
                  /\ h.arg = <<[type |-> "text", data |-> "Alice"]>> =>
                        h.replies[1] = "Hello, Alice!"
            /\ (hpc = "idle") => (event = NoEvent /\ msg = "")

\* C4 witness: the handler answered "Alice" and an argument without text.
C4_Witness ==
    /\ hpc = "idle"
    /\ Len(history) = 2
    /\ history[1].replies = <<"Hello, Alice!">>
    /\ history[2].arg # <<>>
    /\ history[2].replies = <<"Hello, World!">>

\* C5: the alias "hi" and the primary trigger "hello" are bound to the same
\* matcher and handler: with the same trailing text both are answered, and
\* answered alike.
C5_AliasSameReply ==
    \A i, j \in 1..Len(history) :
        (/\ history[i].command = "hello"
         /\ history[j].command = "hi"
         /\ history[i].arg = history[j].arg
         /\ hpc = "idle") =>
            /\ Len(history[j].replies) = 1
            /\ history[j].replies = history[i].replies

\* C5 witness: "hello Alice" and "hi Alice" were both answered.
C5_Witness ==
    /\ hpc = "idle"
    /\ Len(history) = 2
    /\ history[1].command = "hello" /\ history[2].command = "hi"
    /\ history[1].replies = <<"Hello, Alice!">>
    /\ history[2].replies = <<"Hello, Alice!">>

\* C6 (as stated): with a readable manifest whose adapter list is empty, the
\* loop imports nothing, registers nothing, logs nothing, no error is raised
\* and the startup goes on to plugin loading.
C6_Claim ==
    \A s \in Scripts :
        (HasAdapterList /\ NumAdapters = 0 /\ Terminated(s)) =>
            /\ ~Called(s, "import_module")
            /\ ~Called(s, "register_adapter")
            /\ ~Called(s, "logger.error")
            /\ pc[s] # "crashed"
            /\ Called(s, "load_from_toml")

\* C7 (as stated): in the template the built-in plugin list is optional: with
\* the adapter table there and the list absent, the startup completes the
\* loop, reaches load_from_toml and nonebot.run, and no error is raised
\* because of the absent list.
C7_Claim ==
    (HasAdapterList /\ ~manifest.hasBuiltin) =>
        /\ ~(pc["template"] = "crashed"
             /\ exc["template"] = KeyErrorText("builtin_plugins"))
        /\ (Terminated("template") /\ ~HandlerRaised("template")) =>
              /\ Called("template", "load_from_toml")
              /\ Called("template", "run")

\* C8 (as stated): every descriptor is attempted exactly once, in manifest
\* order, and the adapters registered are exactly the descriptors that
\* resolve, in manifest order.
C8_Claim ==
    \A s \in Scripts :
        (Terminated(s) /\ HasAdapterList) =>
            /\ idx[s] = NumAdapters
            /\ Imported(s) = NamedModules(manifest.adapters)
            /\ Registered(s) = ResolvingModules(manifest.adapters)

\* C8 (amended): the loop is a single linear scan: each descriptor is
\* attempted at most once, in manifest order, never retried, and the adapters
\* registered are exactly the resolving ones among the descriptors attempted,
\* in manifest order; the scan covers the whole list unless it is cut short
\* by a failing descriptor without display name, whose error handler raises.
C8_Amended ==
    \A s \in Scripts :
        HasAdapterList =>
            /\ idx[s] <= NumAdapters
            /\ Imported(s) = NamedModules(FirstAdapters(idx[s]))
            /\ Registered(s) =
                  ResolvingModules(FirstAdapters(IF pc[s] = "register"
                                                    THEN idx[s] - 1
                                                    ELSE idx[s]))
            /\ (Terminated(s) /\ ~HandlerRaised(s)) =>
                  /\ idx[s] = NumAdapters
                  /\ Registered(s) = ResolvingModules(manifest.adapters)

\* C8 witness: a failing descriptor stands between two resolving ones (when
\* the list is that long), or before the last one, and the run registered
\* the resolving ones in manifest order after importing each module once.
C8_Witness ==
    \E s \in Scripts :
        /\ pc[s] = "done"
        /\ NumAdapters = 2
        /\ manifest.adapters[1].module_name = "adapters.badreg"
        /\ manifest.adapters[2].module_name = "adapters.console"
        /\ Imported(s) = <<"adapters.badreg", "adapters.console">>
        /\ Registered(s) = <<"adapters.console">>
        /\ Len(Logged(s)) = 1

\* Position of each call in the order of the startup phases.
Phase(op) ==
    CASE op = "init" -> 0
      [] op = "get_driver" -> 1
      [] op = "open" -> 2
      [] op \in {"import_module", "register_adapter", "logger.error"} -> 3
      [] op = "load_builtin_plugins" -> 4
      [] op = "load_from_toml" -> 5
      [] op = "run" -> 6

\* C9: the phases of the startup are strictly ordered: init and get_driver
\* come before the manifest is read; every descriptor has been attempted
\* (registered or logged as failed) before a plugin is loaded; the template
\* calls load_builtin_plugins after the last descriptor and before
\* load_from_toml; nonebot.run comes only after load_from_toml.
C9_PhasesOrdered ==
    \A s \in Scripts :
        /\ \A i, j \in 1..Len(calls[s]) :
              i < j => /\ Phase(calls[s][i].op) <= Phase(calls[s][j].op)
                       /\ Phase(calls[s][j].op) # 3 =>
                             Phase(calls[s][i].op) < Phase(calls[s][j].op)
        /\ Called(s, "open") => (Called(s, "init") /\ Called(s, "get_driver"))
        /\ (Called(s, "load_builtin_plugins") \/ Called(s, "load_from_toml")
            \/ Called(s, "run") \/ pc[s] = "done") =>
              /\ idx[s] = NumAdapters
              /\ Len(Registered(s)) + Len(Logged(s)) = NumAdapters
        /\ Called(s, "load_builtin_plugins") => s = "template"
        /\ (s = "template" /\ Called(s, "load_from_toml")) =>
              Called(s, "load_builtin_plugins")
        /\ Called(s, "run") => Called(s, "load_from_toml")
        /\ pc[s] = "done" => Called(s, "run")

\* C9 witness: the template ran to its end over two descriptors, one
\* registered and one logged.
C9_Witness ==
    /\ pc["template"] = "done"
    /\ Len(Registered("template")) = 1
    /\ Len(Logged("template")) = 1
    /\ Len(calls["template"]) = 10

\* The calls of a run without the template's load_builtin_plugins call and
\* without the argument of nonebot.run.
Common(s) ==
    LET kept == SelectSeq(calls[s], LAMBDA c : c.op # "load_builtin_plugins")
    IN  [i \in 1..Len(kept) |->
            IF kept[i].op = "run" THEN [kept[i] EXCEPT !.args = <<>>]
                                  ELSE kept[i]]

\* C10: on a manifest that carries the adapter table and the built-in plugin
\* list, both entry points register the same adapters and log the same
\* failures, in the same order; their calls differ only in the template's
\* load_builtin_plugins and in the argument of nonebot.run.
C10_SameRegistration ==
    (HasAdapterList /\ manifest.hasBuiltin
     /\ Terminated("nbfile") /\ Terminated("template")) =>
        /\ Registered("nbfile") = Registered("template")
        /\ Logged("nbfile") = Logged("template")
        /\ pc["nbfile"] = pc["template"]
        /\ exc["nbfile"] = exc["template"]
        /\ Common("nbfile") = Common("template")
        /\ ~Called("nbfile", "load_builtin_plugins")
        /\ pc["template"] = "done" =>
              /\ Len(CallsOf("template", "load_builtin_plugins")) = 1
              /\ CallsOf("template", "run")[1].args = <<>>
              /\ CallsOf("nbfile", "run")[1].args = <<"app=__mp_main__:app">>

\* C10 witness: both entry points ended after registering one adapter and
\* logging one failure.
C10_Witness ==
    /\ pc["nbfile"] = "done" /\ pc["template"] = "done"
    /\ manifest.hasBuiltin
    /\ Len(Registered("template")) = 1
    /\ Len(Logged("nbfile")) = 1

====
